---- MODULE Spec2Model ----
(***************************************************************************)
(* A model of the roguelike's simulation core: the entity/fighter state,   *)
(* the action classes (actions.py), the message log, the event handlers    *)
(* (input_handlers.py), the engine's turn steps (engine.py), the enemies'  *)
(* ai (components/ai.py) and the dungeon generation (procgen.py).          *)
(***************************************************************************)
EXTENDS Integers, Sequences, FiniteSets, Bags, TLC

\* ------------------------------------------------------------------------
\* Bounds of the model
\* ------------------------------------------------------------------------
Width == 6
Height == 5
NumMonsters == 1
NumAiMonsters == 2
\* The parameters of generate_dungeon
MaxRooms == 3
RoomMinSize == 2
RoomMaxSize == 3
MaxMonstersPerRoom == 2
\* The turns taken in a generated dungeon
MaxTurns == 2
\* The calls of MessageLog.add_message made directly
MaxCalls == 4
MaxBatch == 2
MaxDelta == 2

\* radius=6 in Engine.update_fov
FovRadius == 6

VARIABLES
    tiles,          \* GameMap.tiles: cell -> "wall" | "floor"
    ent,            \* GameMap.entities: id -> the entity's fields
    visible,        \* GameMap.visible (the set of cells that are True)
    explored,       \* GameMap.explored
    messages,       \* MessageLog.messages
    event_handler,  \* Engine.event_handler (the class of the current handler)
    cursor,         \* HistoryViewer.cursor     (while a HistoryViewer is current)
    log_length,     \* HistoryViewer.log_length (while a HistoryViewer is current)
    handling,       \* the handler whose handle_events loop is running, or "none"
    left,           \* events of the current batch not yet dispatched
    session,        \* "generating" (generate_dungeon is running), "running",
                    \* "exited" (SystemExit), "crashed" (another exception)
    pending,        \* a BumpAction that was constructed and not yet performed
    rooms,          \* generate_dungeon: the list `rooms` of the accepted rooms
    attempts,       \* generate_dungeon: the iterations of its loop that have run
    twin,           \* a second run of generate_dungeon: its tiles, entities, rooms
    turns,          \* the turns taken in the generated dungeon
    deaths,         \* history: id -> number of calls of Fighter.die on that entity
    printed,        \* history: what the last operation wrote with print()
    last            \* history: the last operation and the branch it took

vars == <<tiles, ent, visible, explored, messages, event_handler, cursor,
          log_length, handling, left, session, pending, rooms, attempts, twin,
          turns, deaths, printed, last>>

\* ------------------------------------------------------------------------
\* Entities
\* ------------------------------------------------------------------------
player == 0
\* The members of GameMap.entities: the player and the monsters spawned
Ids == DOMAIN ent
Monsters == Ids \ {player}
Cells == (0..(Width - 1)) \X (0..(Height - 1))
Deltas == (0 - MaxDelta)..MaxDelta
Kinds == {"Orc", "Troll"}

\* The actor templates (their stats are content data).  `path` is the path
\* attribute of the entity's HostileEnemy component, <<>> once ai is None.
Template(kind) ==
    IF kind = "Player" THEN
        [char |-> "@", color |-> <<255, 255, 255>>, name |-> "Player",
         blocks_movement |-> TRUE, render_order |-> "ACTOR", ai |-> "HostileEnemy", path |-> <<>>,
         max_hp |-> 2, hp |-> 2, defense |-> 1, power |-> 2]
    ELSE IF kind = "Orc" THEN
        [char |-> "o", color |-> <<63, 127, 63>>, name |-> "Orc",
         blocks_movement |-> TRUE, render_order |-> "ACTOR", ai |-> "HostileEnemy", path |-> <<>>,
         max_hp |-> 1, hp |-> 1, defense |-> 0, power |-> 0]
    ELSE
        [char |-> "T", color |-> <<0, 127, 0>>, name |-> "Troll",
         blocks_movement |-> TRUE, render_order |-> "ACTOR", ai |-> "HostileEnemy", path |-> <<>>,
         max_hp |-> 2, hp |-> 2, defense |-> 1, power |-> 2]

\* Entity.spawn: a copy of the template at (x, y), whose game_map is the
\* dungeon ("unset" stands for an entity without the attribute)
Spawn(kind, x, y) ==
    [f \in (DOMAIN Template(kind)) \cup {"x", "y", "game_map"} |->
        IF f = "x" THEN x ELSE IF f = "y" THEN y
        ELSE IF f = "game_map" THEN "dungeon" ELSE Template(kind)[f]]

\* Actor.is_alive
IsAlive(E, e) == E[e].hp > 0

\* ------------------------------------------------------------------------
\* Rooms and the map
\* ------------------------------------------------------------------------
\* RectangularRoom.__init__
RectangularRoom(x, y, width, height) ==
    [x1 |-> x, y1 |-> y, x2 |-> x + width, y2 |-> y + height]

\* RectangularRoom.centre
Centre(room) == <<(room.x1 + room.x2) \div 2, (room.y1 + room.y2) \div 2>>

\* RectangularRoom.inner: slice(x1 + 1, x2), slice(y1 + 1, y2)
Inner(room) ==
    {c \in Cells : /\ room.x1 + 1 <= c[1] /\ c[1] < room.x2
                   /\ room.y1 + 1 <= c[2] /\ c[2] < room.y2}

\* The one room of the one-room dungeon, in the map's lower left corner
StartRoom == RectangularRoom(0, Height - 4, 3, 3)

\* in_bounds with the upper limits included: 0 <= x <= width and 0 <= y <= height
InBounds_Inclusive(x, y) == 0 <= x /\ x <= Width /\ 0 <= y /\ y <= Height

\* GameMap.in_bounds
InBounds(x, y) == 0 <= x /\ x < Width /\ 0 <= y /\ y < Height

\* numpy indexing tiles[...][x, y]: an index below zero counts from the end, an
\* index outside [-n, n) raises IndexError
TileAt(x, y) ==
    IF x < 0 - Width \/ x >= Width \/ y < 0 - Height \/ y >= Height
    THEN "IndexError"
    ELSE tiles[<<x % Width, y % Height>>]

\* tiles["transparent"]: floor is transparent, wall is not
Transparent(c) == tiles[c] = "floor"

\* GameMap.actors: the entities that are alive
Actors(E) == {e \in Ids : IsAlive(E, e)}

\* GameMap.get_blocking_entity_at_location: the entities the loop may return
\* (the first match in the set's iteration order); empty when it returns None
BlockingEntitiesAt(E, x, y) ==
    {e \in Ids : E[e].blocks_movement /\ E[e].x = x /\ E[e].y = y}

\* get_actor_at_location over all the entities, dead ones included
ActorsAt_AnyEntity(E, x, y) == {e \in Ids : E[e].x = x /\ E[e].y = y}

\* GameMap.get_actor_at_location: the actors the loop may return; empty for None
ActorsAt(E, x, y) == {e \in Actors(E) : E[e].x = x /\ E[e].y = y}

\* ------------------------------------------------------------------------
\* The state an operation works on.  An operation maps a world (the fields
\* below) to a world, or to the set of worlds it may produce when its result
\* depends on the iteration order of the entity set.
\*   exc        the exception that left the operation, or "none"
\*   res        the branch the operation took
\*   ai_calls   id -> number of calls of ai.perform the operation made
\*   phases     the steps of a turn the handler's loop body ran, in order
\*   action     the action the handler's dispatch returned
\*   target     the actor target_actor returned to MeleeAction, or NoEntity
\* ------------------------------------------------------------------------
NoCalls == [e \in Ids |-> 0]

NoEntity == 0 - 1

NoAction == [kind |-> "None", dx |-> 0, dy |-> 0]

\* No action object is waiting to be performed.  A waiting BumpAction holds
\* the fields __init__ stored (entity, dx, dy); x, y and dest are history:
\* where the entity stood and what stood at the destination at construction.
NoPending == [who |-> NoEntity, dx |-> 0, dy |-> 0, x |-> 0, y |-> 0, dest |-> "none"]

\* History of a call of HostileEnemy.perform: whether the enemy's cell was
\* visible, its distance to the player, the cell it stood on and the path it
\* had stored, all before the call.
NoAi == [seen |-> FALSE, distance |-> 0, from |-> <<0, 0>>, path |-> <<>>]

\* No second run of the generation is made.
NoTwin == [tiles |-> <<>>, ent |-> <<>>, rooms |-> <<>>]

World ==
    [ent |-> ent, messages |-> messages, event_handler |-> event_handler,
     cursor |-> cursor, log_length |-> log_length,
     visible |-> visible, explored |-> explored,
     deaths |-> deaths, printed |-> EmptyBag, exc |-> "none", res |-> "none",
     ai_calls |-> NoCalls, phases |-> <<>>, action |-> NoAction, target |-> NoEntity]

Max(a, b) == IF a >= b THEN a ELSE b
Min(a, b) == IF a <= b THEN a ELSE b

\* print(line)
PrintLine(w, line) == [w EXCEPT !.printed = @ (+) SetToBag({line})]

\* str.capitalize() on the names the model holds: first character upper case,
\* the rest lower case
Capitalize(name) ==
    CASE name = "remains of Player" -> "Remains of player"
      [] name = "remains of Orc" -> "Remains of orc"
      [] name = "remains of Troll" -> "Remains of troll"
      [] OTHER -> name

\* add_message that stacks whatever `stack` says
AddMessageStack_IgnoresFlag(msgs, text, fg, stack) ==
    IF Len(msgs) > 0 /\ text = msgs[Len(msgs)].plain_text
    THEN [msgs EXCEPT ![Len(msgs)].count = @ + 1]
    ELSE Append(msgs, [plain_text |-> text, fg |-> fg, count |-> 1])

\* MessageLog.add_message(text, fg, stack=stack)
AddMessageStack(msgs, text, fg, stack) ==
    IF stack /\ Len(msgs) > 0 /\ text = msgs[Len(msgs)].plain_text
    THEN [msgs EXCEPT ![Len(msgs)].count = @ + 1]
    ELSE Append(msgs, [plain_text |-> text, fg |-> fg, count |-> 1])

\* MessageLog.add_message(text, fg) with stack=True, its default
AddMessage(msgs, text, fg) == AddMessageStack(msgs, text, fg, TRUE)

\* A die that leaves the engine's event handler as it is
Die_KeepsHandler(w, e) ==
    LET death_message == IF e = player THEN "You died!"
                         ELSE w.ent[e].name \o " is dead!"
        death_message_colour == IF e = player THEN "player_die" ELSE "enemy_die"
    IN [w EXCEPT
          !.ent[e] = [@ EXCEPT !.char = "%",
                               !.color = <<191, 0, 0>>,
                               !.blocks_movement = FALSE,
                               !.ai = "None",
                               !.path = <<>>,
                               !.name = "remains of " \o @,
                               !.render_order = "CORPSE"],
          !.messages = AddMessage(@, death_message, death_message_colour),
          !.deaths[e] = @ + 1]

\* A die that leaves blocks_movement set
Die_StillBlocks(w, e) ==
    LET isPlayer == (e = player)
        death_message == IF isPlayer THEN "You died!"
                         ELSE w.ent[e].name \o " is dead!"
        death_message_colour == IF isPlayer THEN "player_die" ELSE "enemy_die"
    IN [w EXCEPT
          !.event_handler = IF isPlayer THEN "GameOverEventHandler" ELSE @,
          !.ent[e] = [@ EXCEPT !.char = "%",
                               !.color = <<191, 0, 0>>,
                               !.ai = "None",
                               !.path = <<>>,
                               !.name = "remains of " \o @,
                               !.render_order = "CORPSE"],
          !.messages = AddMessage(@, death_message, death_message_colour),
          !.deaths[e] = @ + 1]

\* Fighter.die
Die(w, e) ==
    LET isPlayer == (e = player)
        death_message == IF isPlayer THEN "You died!"
                         ELSE w.ent[e].name \o " is dead!"
        death_message_colour == IF isPlayer THEN "player_die" ELSE "enemy_die"
    IN [w EXCEPT
          !.event_handler = IF isPlayer THEN "GameOverEventHandler" ELSE @,
          !.ent[e] = [@ EXCEPT !.char = "%",
                               !.color = <<191, 0, 0>>,
                               !.blocks_movement = FALSE,
                               !.ai = "None",
                               !.path = <<>>,
                               !.name = "remains of " \o @,
                               !.render_order = "CORPSE"],
          !.messages = AddMessage(@, death_message, death_message_colour),
          !.deaths[e] = @ + 1]

\* The hp setter without the upper clamp: self._hp = max(0, value)
HpSetter_NoUpperClamp(w, e, value) ==
    LET w1 == [w EXCEPT !.ent[e].hp = Max(0, value)]
    IN IF w1.ent[e].hp <= 0 /\ w1.ent[e].ai # "None" THEN Die(w1, e) ELSE w1

\* The hp setter without the test of entity.ai: if self._hp <= 0: self.die()
HpSetter_NoAiTest(w, e, value) ==
    LET w1 == [w EXCEPT !.ent[e].hp = Max(0, Min(value, w.ent[e].max_hp))]
    IN IF w1.ent[e].hp <= 0 THEN Die(w1, e) ELSE w1

\* Fighter.hp setter
HpSetter(w, e, value) ==
    LET w1 == [w EXCEPT !.ent[e].hp = Max(0, Min(value, w.ent[e].max_hp))]
    IN IF w1.ent[e].hp <= 0 /\ w1.ent[e].ai # "None" THEN Die(w1, e) ELSE w1

\* ActionWithDirection.dest_xy
DestXY(w, e, dx, dy) == <<w.ent[e].x + dx, w.ent[e].y + dy>>

\* A move that shifts every entity of the map
Move_Everyone(w, e, dx, dy) ==
    [w EXCEPT !.ent = [o \in DOMAIN w.ent |->
                          [w.ent[o] EXCEPT !.x = @ + dx, !.y = @ + dy]]]

\* Entity.move
Move(w, e, dx, dy) == [w EXCEPT !.ent[e].x = @ + dx, !.ent[e].y = @ + dy]

\* A melee whose damage leaves out the target's defense
MeleeOn_IgnoresDefense(w, e, target) ==
    LET damage == w.ent[e].power
        attack_desc == Capitalize(w.ent[e].name) \o " attacks " \o w.ent[target].name
    IN IF damage > 0
       THEN [PrintLine(HpSetter(w, target, w.ent[target].hp - damage),
                       attack_desc \o " for " \o ToString(damage) \o " hit points.")
                EXCEPT !.res = "hit", !.target = target]
       ELSE [PrintLine(w, attack_desc \o " but does no damage.")
                EXCEPT !.res = "no_damage", !.target = target]

\* MeleeAction.perform from the point where target_actor has returned `target`
MeleeOn(w, e, target) ==
    LET damage == w.ent[e].power - w.ent[target].defense
        attack_desc == Capitalize(w.ent[e].name) \o " attacks " \o w.ent[target].name
    IN IF damage > 0
       THEN [PrintLine(HpSetter(w, target, w.ent[target].hp - damage),
                       attack_desc \o " for " \o ToString(damage) \o " hit points.")
                EXCEPT !.res = "hit", !.target = target]
       ELSE [PrintLine(w, attack_desc \o " but does no damage.")
                EXCEPT !.res = "no_damage", !.target = target]

\* MeleeAction.perform
MeleeAction(w, e, dx, dy) ==
    LET dest == DestXY(w, e, dx, dy)
        targets == ActorsAt(w.ent, dest[1], dest[2])
    IN IF targets = {}
       THEN {[w EXCEPT !.res = "no_target"]}
       ELSE {MeleeOn(w, e, target) : target \in targets}

\* A MovementAction that does not look for a blocking entity
MovementAction_NoEntityTest(w, e, dx, dy) ==
    LET dest == DestXY(w, e, dx, dy)
    IN IF ~InBounds(dest[1], dest[2])
       THEN [w EXCEPT !.res = "out_of_bounds"]
       ELSE IF TileAt(dest[1], dest[2]) = "IndexError"
       THEN [w EXCEPT !.res = "IndexError", !.exc = "IndexError"]
       ELSE IF TileAt(dest[1], dest[2]) # "floor"
       THEN [w EXCEPT !.res = "tile"]
       ELSE [Move(w, e, dx, dy) EXCEPT !.res = "moved"]

\* A Movement without the test of the destination's tile
MovementAction_NoTileTest(w, e, dx, dy) ==
    LET dest == DestXY(w, e, dx, dy)
    IN IF ~InBounds(dest[1], dest[2])
       THEN [w EXCEPT !.res = "out_of_bounds"]
       ELSE IF BlockingEntitiesAt(w.ent, dest[1], dest[2]) # {}
       THEN [w EXCEPT !.res = "entity"]
       ELSE [Move(w, e, dx, dy) EXCEPT !.res = "moved"]

\* MovementAction.perform
MovementAction(w, e, dx, dy) ==
    LET dest == DestXY(w, e, dx, dy)
    IN IF ~InBounds(dest[1], dest[2])
       THEN [w EXCEPT !.res = "out_of_bounds"]
       ELSE IF TileAt(dest[1], dest[2]) = "IndexError"
       THEN [w EXCEPT !.res = "IndexError", !.exc = "IndexError"]
       ELSE IF TileAt(dest[1], dest[2]) # "floor"
       THEN [w EXCEPT !.res = "tile"]
       ELSE IF BlockingEntitiesAt(w.ent, dest[1], dest[2]) # {}
       THEN [w EXCEPT !.res = "entity"]
       ELSE [Move(w, e, dx, dy) EXCEPT !.res = "moved"]

\* A Bump that takes any entity at the destination, a corpse included, for
\* a target
BumpAction_AnyEntity(w, e, dx, dy) ==
    LET dest == DestXY(w, e, dx, dy)
    IN IF ActorsAt_AnyEntity(w.ent, dest[1], dest[2]) # {}
       THEN MeleeAction(w, e, dx, dy)
       ELSE {MovementAction(w, e, dx, dy)}

\* A Bump that decides between Melee and Move from what stood at the
\* destination when the action object was constructed
BumpAction_AtConstruction(w, e, dx, dy) ==
    IF pending.dest = "actor"
    THEN MeleeAction(w, e, dx, dy)
    ELSE {MovementAction(w, e, dx, dy)}

\* BumpAction.perform
BumpAction(w, e, dx, dy) ==
    LET dest == DestXY(w, e, dx, dy)
    IN IF ActorsAt(w.ent, dest[1], dest[2]) # {}
       THEN MeleeAction(w, e, dx, dy)
       ELSE {MovementAction(w, e, dx, dy)}

\* WaitAction.perform
WaitAction(w) == [w EXCEPT !.res = "wait"]

\* An Escape that raises nothing
EscapeAction_NoRaise(w) == [w EXCEPT !.res = "escape"]

\* EscapeAction.perform
EscapeAction(w) == [w EXCEPT !.res = "escape", !.exc = "SystemExit"]

\* Engine.handle_enemy_turns
HandleEnemyTurns(w) ==
    [w EXCEPT !.phases = Append(@, "handle_enemy_turns"), !.printed =
        @ (+) [t \in {"The " \o w.ent[e].name \o " wonders when it will get to take a real turn."
                        : e \in Ids \ {player}} |->
                 Cardinality({e \in Ids \ {player} :
                     "The " \o w.ent[e].name \o " wonders when it will get to take a real turn." = t})]]

\* ------------------------------------------------------------------------
\* Field of view
\* ------------------------------------------------------------------------
Abs(n) == IF n < 0 THEN 0 - n ELSE n

\* n * p / q rounded to the nearest integer, q > 0
RoundDiv(p, q) == (2 * p + q) \div (2 * q)

\* the cells strictly between a and b on the straight line from a to b
Between(a, b) ==
    LET dx == b[1] - a[1]
        dy == b[2] - a[2]
        n == Max(Abs(dx), Abs(dy))
    IN {<<a[1] + RoundDiv(i * dx, n), a[2] + RoundDiv(i * dy, n)>> : i \in 1..(n - 1)}

\* tcod.map.compute_fov(transparent, origin, radius): the cells within the
\* radius that no opaque cell hides from the origin
ComputeFov(origin, radius) ==
    {c \in Cells :
        /\ (c[1] - origin[1]) * (c[1] - origin[1])
             + (c[2] - origin[2]) * (c[2] - origin[2]) <= radius * radius
        /\ \A m \in Between(origin, c) : Transparent(m)}

\* An update_fov that keeps only the cells in view as explored
UpdateFov_ForgetsExplored(w) ==
    LET fov == ComputeFov(<<w.ent[player].x, w.ent[player].y>>, FovRadius)
    IN [w EXCEPT !.visible = fov, !.explored = fov,
                 !.phases = Append(@, "update_fov")]

\* Engine.update_fov
UpdateFov(w) ==
    LET fov == ComputeFov(<<w.ent[player].x, w.ent[player].y>>, FovRadius)
    IN [w EXCEPT !.visible = fov, !.explored = @ \cup fov,
                 !.phases = Append(@, "update_fov")]

\* ------------------------------------------------------------------------
\* The hostile enemy's AI (components/ai.py)
\* ------------------------------------------------------------------------
\* cost[entity.x, entity.y] += 10
CrowdPenalty == 10

\* tcod.path.SimpleGraph(cost=cost, cardinal=2, diagonal=3)
Cardinal == 2
Diagonal == 3

\* A value of numpy's int8
Int8(n) == ((n + 128) % 256) - 128

\* A cost array without the penalty for occupied cells
CostField_NoPenalty(E) == [c \in Cells |-> IF tiles[c] # "floor" THEN 0 ELSE 1]

\* The cost array get_path_to builds: 1 on a walkable tile and 0 elsewhere,
\* then 10 more for every blocks_movement entity on a cell whose cost is not 0
\* (1 + 10 k is never 0 modulo 256, so every such entity adds its 10)
CostField(E) ==
    [c \in Cells |->
        IF tiles[c] # "floor" THEN 0
        ELSE Int8(1 + CrowdPenalty * Cardinality(BlockingEntitiesAt(E, c[1], c[2])))]

\* The cells next to c, diagonal ones included
Neighbours(c) ==
    {d \in Cells : d # c /\ Abs(d[1] - c[1]) <= 1 /\ Abs(d[2] - c[2]) <= 1}

\* The graph's cost of the step from u to the neighbouring cell v
StepCost(cost, u, v) ==
    cost[v] * (IF u[1] = v[1] \/ u[2] = v[2] THEN Cardinal ELSE Diagonal)

\* The walks from v to dest that enter no cell twice, no cell of `seen` and
\* no closed cell (a cell of cost 0 or less), without v itself
RECURSIVE SimplePaths(_, _, _, _)
SimplePaths(cost, v, dest, seen) ==
    IF v = dest THEN {<<>>}
    ELSE UNION {{<<n>> \o p : p \in SimplePaths(cost, n, dest, seen \cup {n})} :
                  n \in {c \in Neighbours(v) \ seen : cost[c] > 0}}

\* The graph's cost of the walk p that starts from the cell v
RECURSIVE PathCost(_, _, _)
PathCost(cost, v, p) ==
    IF p = <<>> THEN 0
    ELSE StepCost(cost, v, Head(p)) + PathCost(cost, Head(p), Tail(p))

\* The walks of S from the root that no walk of S undercuts
Cheapest(cost, root, S) ==
    LET costs == {PathCost(cost, root, p) : p \in S}
        least == CHOOSE m \in costs : \A n \in costs : m <= n
    IN {p \in S : PathCost(cost, root, p) = least}

\* BaseAI.get_path_to: pathfinder.path_to(dest)[1:], the paths the pathfinder
\* may return (one of the walks of least cost; [] when dest is out of reach)
GetPathTo(w, e, dest) ==
    LET cost == CostField(w.ent)
        root == <<w.ent[e].x, w.ent[e].y>>
        all == SimplePaths(cost, root, dest, {root})
    IN IF all = {} THEN {<<>>} ELSE Cheapest(cost, root, all)

\* HostileEnemy.perform from `if self.path:` on
FollowPath(w, e) ==
    IF w.ent[e].path # <<>>
    THEN LET dest == Head(w.ent[e].path)
         IN MovementAction([w EXCEPT !.ent[e].path = Tail(@)], e,
                           dest[1] - w.ent[e].x, dest[2] - w.ent[e].y)
    ELSE WaitAction(w)

\* A perform that keeps a stored path instead of computing a new one
HostileEnemyPerform_KeepsPath(w, e) ==
    LET dx == w.ent[player].x - w.ent[e].x
        dy == w.ent[player].y - w.ent[e].y
        distance == Max(Abs(dx), Abs(dy))
    IN IF <<w.ent[e].x, w.ent[e].y>> \in w.visible
       THEN IF distance <= 1
            THEN MeleeAction(w, e, dx, dy)
            ELSE IF w.ent[e].path # <<>>
            THEN {FollowPath(w, e)}
            ELSE {FollowPath([w EXCEPT !.ent[e].path = p], e) :
                    p \in GetPathTo(w, e, <<w.ent[player].x, w.ent[player].y>>)}
       ELSE {FollowPath(w, e)}

\* A perform that drops the stored path when it attacks
HostileEnemyPerform_DropsPath(w, e) ==
    LET dx == w.ent[player].x - w.ent[e].x
        dy == w.ent[player].y - w.ent[e].y
        distance == Max(Abs(dx), Abs(dy))
    IN IF <<w.ent[e].x, w.ent[e].y>> \in w.visible
       THEN IF distance <= 1
            THEN MeleeAction([w EXCEPT !.ent[e].path = <<>>], e, dx, dy)
            ELSE {FollowPath([w EXCEPT !.ent[e].path = p], e) :
                    p \in GetPathTo(w, e, <<w.ent[player].x, w.ent[player].y>>)}
       ELSE {FollowPath(w, e)}

\* A perform that computes a new path whether or not its cell is visible
HostileEnemyPerform_AlwaysSeeks(w, e) ==
    LET dx == w.ent[player].x - w.ent[e].x
        dy == w.ent[player].y - w.ent[e].y
        distance == Max(Abs(dx), Abs(dy))
    IN IF distance <= 1 /\ <<w.ent[e].x, w.ent[e].y>> \in w.visible
       THEN MeleeAction(w, e, dx, dy)
       ELSE {FollowPath([w EXCEPT !.ent[e].path = p], e) :
               p \in GetPathTo(w, e, <<w.ent[player].x, w.ent[player].y>>)}

\* HostileEnemy.perform
HostileEnemyPerform(w, e) ==
    LET dx == w.ent[player].x - w.ent[e].x
        dy == w.ent[player].y - w.ent[e].y
        distance == Max(Abs(dx), Abs(dy))
    IN IF <<w.ent[e].x, w.ent[e].y>> \in w.visible
       THEN IF distance <= 1
            THEN MeleeAction(w, e, dx, dy)
            ELSE {FollowPath([w EXCEPT !.ent[e].path = p], e) :
                    p \in GetPathTo(w, e, <<w.ent[player].x, w.ent[player].y>>)}
       ELSE {FollowPath(w, e)}

\* ------------------------------------------------------------------------
\* Input events and the event handlers
\* ------------------------------------------------------------------------
MoveKeySyms == {"UP", "DOWN", "LEFT", "RIGHT", "w", "s", "a", "d"}

\* MOVE_KEYS
MOVE_KEYS(key) ==
    CASE key \in {"UP", "w"} -> <<0, -1>>
      [] key \in {"DOWN", "s"} -> <<0, 1>>
      [] key \in {"LEFT", "a"} -> <<-1, 0>>
      [] key \in {"RIGHT", "d"} -> <<1, 0>>

\* WAIT_KEYS
WAIT_KEYS == {"PERIOD", "KP_5", "CLEAR"}

CursorKeySyms == {"UP", "DOWN", "PAGEUP", "PAGEDOWN"}

\* CURSOR_Y_KEYS
CURSOR_Y_KEYS(key) ==
    CASE key = "UP" -> -1
      [] key = "DOWN" -> 1
      [] key = "PAGEUP" -> -10
      [] key = "PAGEDOWN" -> 10

\* The key symbols the model presses; "x" stands for a key no handler binds.
KeySyms == MoveKeySyms \cup WAIT_KEYS \cup CursorKeySyms
             \cup {"ESCAPE", "v", "HOME", "END", "x"}

Events == [type : {"KeyDown"}, sym : KeySyms] \cup {[type |-> "Quit", sym |-> "none"]}

\* EventHandler.ev_quit, MainGameEventHandler.ev_quit
EvQuit(w) == [w EXCEPT !.exc = "SystemExit", !.res = "quit"]

\* HistoryViewer.__init__
NewHistoryViewer(w) ==
    [w EXCEPT !.event_handler = "HistoryViewer",
              !.log_length = Len(w.messages),
              !.cursor = Len(w.messages) - 1]

\* MainGameEventHandler.ev_keydown
MainEvKeydown(w, key) ==
    IF key \in MoveKeySyms
    THEN [w EXCEPT !.action = [kind |-> "Bump", dx |-> MOVE_KEYS(key)[1],
                               dy |-> MOVE_KEYS(key)[2]]]
    ELSE IF key \in WAIT_KEYS
    THEN [w EXCEPT !.action = [kind |-> "Wait", dx |-> 0, dy |-> 0]]
    ELSE IF key = "ESCAPE"
    THEN [w EXCEPT !.action = [kind |-> "Escape", dx |-> 0, dy |-> 0]]
    ELSE IF key = "v"
    THEN NewHistoryViewer(w)
    ELSE w

\* GameOverEventHandler.ev_keydown
GameOverEvKeydown(w, key) ==
    IF key = "ESCAPE"
    THEN [w EXCEPT !.action = [kind |-> "Escape", dx |-> 0, dy |-> 0]]
    ELSE w

\* HistoryViewer.ev_keydown
\* ev_keydown that adds the adjustment without clamping it
HistoryEvKeydown_NoClamp(w, key) ==
    IF key \in CursorKeySyms
    THEN LET adjust == CURSOR_Y_KEYS(key)
         IN IF adjust < 0 /\ w.cursor = 0
            THEN [w EXCEPT !.cursor = w.log_length - 1]
            ELSE IF adjust > 0 /\ w.cursor = w.log_length - 1
            THEN [w EXCEPT !.cursor = 0]
            ELSE [w EXCEPT !.cursor = w.cursor + adjust]
    ELSE IF key = "HOME"
    THEN [w EXCEPT !.cursor = 0]
    ELSE IF key = "END"
    THEN [w EXCEPT !.cursor = w.log_length - 1]
    ELSE [w EXCEPT !.event_handler = "MainGameEventHandler"]

HistoryEvKeydown(w, key) ==
    IF key \in CursorKeySyms
    THEN LET adjust == CURSOR_Y_KEYS(key)
         IN IF adjust < 0 /\ w.cursor = 0
            THEN [w EXCEPT !.cursor = w.log_length - 1]
            ELSE IF adjust > 0 /\ w.cursor = w.log_length - 1
            THEN [w EXCEPT !.cursor = 0]
            ELSE [w EXCEPT !.cursor = Max(0, Min(w.cursor + adjust, w.log_length - 1))]
    ELSE IF key = "HOME"
    THEN [w EXCEPT !.cursor = 0]
    ELSE IF key = "END"
    THEN [w EXCEPT !.cursor = w.log_length - 1]
    ELSE [w EXCEPT !.event_handler = "MainGameEventHandler"]

\* EventDispatch.dispatch on a handler of class `self`
Dispatch(self, w, ev) ==
    IF ev.type = "Quit" THEN EvQuit(w)
    ELSE CASE self = "MainGameEventHandler" -> MainEvKeydown(w, ev.sym)
           [] self = "GameOverEventHandler" -> GameOverEvKeydown(w, ev.sym)
           [] self = "HistoryViewer" -> HistoryEvKeydown(w, ev.sym)

\* action.perform() for the action a handler returned, acting for the player
Perform(w, a) ==
    LET w1 == [w EXCEPT !.phases = Append(@, "perform")]
    IN CASE a.kind = "Bump" -> BumpAction(w1, player, a.dx, a.dy)
         [] a.kind = "Wait" -> {WaitAction(w1)}
         [] a.kind = "Escape" -> {EscapeAction(w1)}

\* A loop body that updates the field of view before the action is performed
MainLoopBody_FovBeforeAction(w, ev) ==
    LET d == Dispatch("MainGameEventHandler", w, ev)
    IN IF d.exc # "none" \/ d.action.kind = "None"
       THEN {d}
       ELSE {IF p.exc # "none" THEN p ELSE HandleEnemyTurns(p)
                : p \in Perform(UpdateFov(d), d.action)}

\* A loop body without the test `if action is None: continue`: the enemy
\* turns and the field of view follow every event
MainLoopBody_TurnWithoutAction(w, ev) ==
    LET d == Dispatch("MainGameEventHandler", w, ev)
    IN IF d.exc # "none" THEN {d}
       ELSE IF d.action.kind = "None" THEN {UpdateFov(HandleEnemyTurns(d))}
       ELSE {IF p.exc # "none" THEN p ELSE UpdateFov(HandleEnemyTurns(p))
                : p \in Perform(d, d.action)}

\* The body of the loop of MainGameEventHandler.handle_events for one event
MainLoopBody(w, ev) ==
    LET d == Dispatch("MainGameEventHandler", w, ev)
    IN IF d.exc # "none" \/ d.action.kind = "None"
       THEN {d}
       ELSE {IF p.exc # "none" THEN p ELSE UpdateFov(HandleEnemyTurns(p))
                : p \in Perform(d, d.action)}

\* The body of the loop of GameOverEventHandler.handle_events for one event
GameOverLoopBody(w, ev) ==
    LET d == Dispatch("GameOverEventHandler", w, ev)
    IN IF d.exc # "none" \/ d.action.kind = "None"
       THEN {d}
       ELSE Perform(d, d.action)

\* The body of the loop of EventHandler.handle_events (HistoryViewer inherits it)
BaseLoopBody(w, ev) == {Dispatch("HistoryViewer", w, ev)}

LoopBody(self, w, ev) ==
    CASE self = "MainGameEventHandler" -> MainLoopBody(w, ev)
      [] self = "GameOverEventHandler" -> GameOverLoopBody(w, ev)
      [] self = "HistoryViewer" -> BaseLoopBody(w, ev)

\* ------------------------------------------------------------------------
\* The state machine.  The history variable `last` describes the last step:
\*   op, who, arg, key   the operation, the entity it was called on, the value
\*                       assigned (hp) and the key pressed (event)
\*   dest                what stood at the destination before the step
\*   allowed, goal       for a direct Move: whether the move was to succeed,
\*                       and the cell the entity is to stand on afterwards
\*   target, action, res, phases, ai_calls   taken from the operation's world
\*   died                the entities Fighter.die ran on during the step
\* ------------------------------------------------------------------------
\* The values the model assigns to Fighter.hp directly: -1 .. MaxHpValue
MaxHpValue == 3
HpValues == (0 - 1)..MaxHpValue

\* generate_dungeon with one accepted room: the room is dug out, the player
\* stands at its centre, place_entities has spawned the monsters on free
\* cells inside it; then Engine.__init__ has computed the first field of view.
Init ==
    /\ tiles = [c \in Cells |-> IF c \in Inner(StartRoom) THEN "floor" ELSE "wall"]
    /\ \E pos \in [1..NumMonsters -> Inner(StartRoom)], kind \in [1..NumMonsters -> Kinds] :
         /\ \A m \in 1..NumMonsters : pos[m] # Centre(StartRoom)
         /\ \A m, n \in 1..NumMonsters : m # n => pos[m] # pos[n]
         /\ ent = [e \in 0..NumMonsters |->
                     IF e = player
                     THEN Spawn("Player", Centre(StartRoom)[1], Centre(StartRoom)[2])
                     ELSE Spawn(kind[e], pos[e][1], pos[e][2])]
    /\ visible = ComputeFov(Centre(StartRoom), FovRadius)
    /\ explored = visible
    /\ messages = <<>>
    /\ event_handler = "MainGameEventHandler"
    /\ cursor = 0
    /\ log_length = 0
    /\ handling = "none"
    /\ left = 0
    /\ session = "running"
    /\ pending = NoPending
    /\ rooms = <<StartRoom>>
    /\ attempts = 1
    /\ twin = NoTwin
    /\ turns = 0
    /\ deaths = [e \in 0..NumMonsters |-> 0]
    /\ printed = EmptyBag
    /\ last = [op |-> "init", who |-> NoEntity, arg |-> 0, key |-> "none", dest |-> "none",
               delta |-> <<0, 0>>, built |-> NoPending, ai |-> NoAi,
               allowed |-> FALSE, goal |-> <<0, 0>>,
               target |-> NoEntity, handler |-> "none", action |-> "None",
               res |-> "none", phases |-> <<>>,
               ai_calls |-> [e \in 0..NumMonsters |-> 0], died |-> {}]

\* What stands at (x, y) in the entity map E
DestKind(E, x, y) ==
    IF ~(0 <= x /\ x < Width /\ 0 <= y /\ y < Height) THEN "out_of_bounds"
    ELSE IF tiles[<<x, y>>] # "floor" THEN "wall"
    ELSE IF \E e \in Ids : E[e].x = x /\ E[e].y = y /\ E[e].hp > 0 THEN "actor"
    ELSE IF \E e \in Ids : E[e].x = x /\ E[e].y = y THEN "corpse"
    ELSE "empty"

\* The condition under which a Move of e by (dx, dy) is to succeed: the
\* destination is in bounds, its tile is walkable, and no blocks_movement
\* entity stands on it.
MoveAllowed(e, dx, dy) ==
    LET x == ent[e].x + dx
        y == ent[e].y + dy
    IN /\ 0 <= x /\ x < Width /\ 0 <= y /\ y < Height
       /\ tiles[<<x, y>>] = "floor"
       /\ ~\E o \in Ids : ent[o].blocks_movement /\ ent[o].x = x /\ ent[o].y = y

\* The world `w` an operation produced becomes the state.  `call` describes
\* the operation for the history: its name, the entity it was called on, its
\* argument, the key of the event, what stood at its destination, the handler
\* that ran it;
\* `running` is the handler whose loop goes on after it, or "none".
Record(w, call, running) ==
    /\ tiles' = tiles
    /\ ent' = w.ent
    /\ visible' = w.visible
    /\ explored' = w.explored
    /\ messages' = w.messages
    /\ event_handler' = w.event_handler
    \* a HistoryViewer lives while the engine or a running loop refers to it
    /\ cursor' = IF "HistoryViewer" \in {w.event_handler, running} THEN w.cursor ELSE 0
    /\ log_length' = IF "HistoryViewer" \in {w.event_handler, running}
                     THEN w.log_length ELSE 0
    /\ session' = IF w.exc = "SystemExit" THEN "exited"
                  ELSE IF w.exc # "none" THEN "crashed" ELSE session
    /\ deaths' = w.deaths
    /\ printed' = w.printed
    /\ UNCHANGED <<rooms, attempts, twin>>
    /\ last' = [op |-> call.op, who |-> call.who, arg |-> call.arg, key |-> call.key,
                dest |-> call.dest, delta |-> call.delta,
                built |-> IF call.op = "PerformBump" THEN pending ELSE NoPending,
                ai |-> IF call.op = "AiPerform"
                       THEN [seen |-> <<ent[call.who].x, ent[call.who].y>> \in visible,
                             distance |-> Max(Abs(ent[player].x - ent[call.who].x),
                                              Abs(ent[player].y - ent[call.who].y)),
                             from |-> <<ent[call.who].x, ent[call.who].y>>,
                             path |-> ent[call.who].path]
                       ELSE NoAi,
                allowed |-> call.allowed, goal |-> call.goal,
                target |-> w.target, handler |-> call.handler,
                action |-> w.action.kind, res |-> w.res,
                phases |-> w.phases, ai_calls |-> w.ai_calls,
                died |-> {e \in Ids : w.deaths[e] > deaths[e]}]

\* An operation outside the turns counted in a generated dungeon
Commit(w, call, running) == Record(w, call, running) /\ UNCHANGED turns

\* The main loop calls engine.event_handler.handle_events(context), and
\* tcod.event.wait() returns a batch of n events.
BeginBatch(n) ==
    /\ session = "running"
    /\ handling = "none"
    /\ handling' = event_handler
    /\ left' = n
    /\ UNCHANGED <<tiles, ent, visible, explored, messages, event_handler, cursor,
                   log_length, session, pending, rooms, attempts, twin, turns, deaths, printed,
                   last>>

\* One iteration of the running handle_events loop, on event ev.
HandleEvent(ev) ==
    /\ session = "running"
    /\ handling # "none"
    /\ left > 0
    /\ \E w \in LoopBody(handling, World, ev) :
         LET running == IF w.exc # "none" \/ left = 1 THEN "none" ELSE handling
         IN /\ Commit(w, [op |-> "event", who |-> player, arg |-> 0, key |-> ev.sym,
                           dest |-> DestKind(ent, ent[player].x + w.action.dx,
                                             ent[player].y + w.action.dy),
                           delta |-> <<w.action.dx, w.action.dy>>,
                           allowed |-> FALSE, goal |-> <<0, 0>>,
                           handler |-> handling], running)
            /\ handling' = running
            /\ left' = IF w.exc # "none" THEN 0 ELSE left - 1
            /\ UNCHANGED pending

Next ==
    \/ \E n \in 1..MaxBatch : BeginBatch(n)
    \/ \E ev \in Events : HandleEvent(ev)

\* The session as the program runs it.
Spec == Init /\ [][Next]_vars

\* Direct calls of the operations, between two batches of events.
Idle == session = "running" /\ handling = "none"

\* entity.fighter.hp = value
ApiSetHp(e, value) ==
    /\ Idle
    /\ Commit([HpSetter(World, e, value) EXCEPT !.res = "set"],
              [op |-> "hp", who |-> e, arg |-> value, key |-> "none", dest |-> "none",
               delta |-> <<0, 0>>, allowed |-> FALSE, goal |-> <<0, 0>>, handler |-> "none"], "none")
    /\ UNCHANGED <<handling, left, pending>>

\* The history's description of a direct call of an action of e toward
\* (dx, dy): what stands at the destination, whether a move there is allowed,
\* and the cell a Move must leave e on.
Call(op, e, dx, dy) ==
    [op |-> op, who |-> e, arg |-> 0, key |-> "none", handler |-> "none",
     delta |-> IF op = "Bump" THEN <<dx, dy>> ELSE <<0, 0>>,
     dest |-> DestKind(ent, ent[e].x + dx, ent[e].y + dy),
     allowed |-> MoveAllowed(e, dx, dy),
     goal |-> IF MoveAllowed(e, dx, dy) THEN <<ent[e].x + dx, ent[e].y + dy>>
              ELSE <<ent[e].x, ent[e].y>>]

\* MovementAction(entity, dx, dy).perform()
ApiMove(e, dx, dy) ==
    /\ Idle
    /\ Commit(MovementAction(World, e, dx, dy), Call("Move", e, dx, dy), "none")
    /\ UNCHANGED <<handling, left, pending>>

\* MeleeAction(entity, dx, dy).perform()
ApiMelee(e, dx, dy) ==
    /\ Idle
    /\ \E w \in MeleeAction(World, e, dx, dy) :
         Commit(w, Call("Melee", e, dx, dy), "none")
    /\ UNCHANGED <<handling, left, pending>>

\* BumpAction(entity, dx, dy).perform()
ApiBump(e, dx, dy) ==
    /\ Idle
    /\ \E w \in BumpAction(World, e, dx, dy) :
         Commit(w, Call("Bump", e, dx, dy), "none")
    /\ UNCHANGED <<handling, left, pending>>

\* WaitAction(entity).perform()
ApiWait(e) ==
    /\ Idle
    /\ Commit(WaitAction(World), Call("Wait", e, 0, 0), "none")
    /\ UNCHANGED <<handling, left, pending>>

NextActions ==
    \/ \E e \in Ids : ApiWait(e)
    \/ \E e \in Ids, dx \in Deltas, dy \in Deltas : ApiMove(e, dx, dy)
    \/ \E e \in Ids, dx \in Deltas, dy \in Deltas : ApiMelee(e, dx, dy)

\* The three actions called directly, in any order.
SpecActions == Init /\ [][NextActions]_vars

NextOps ==
    \/ \E e \in Ids, value \in HpValues : ApiSetHp(e, value)
    \/ \E e \in Ids, dx \in Deltas, dy \in Deltas : ApiMove(e, dx, dy)
    \/ \E e \in Ids, dx \in Deltas, dy \in Deltas : ApiMelee(e, dx, dy)

\* The operations called directly, in any order: no event is handled.
SpecOps == Init /\ [][NextOps]_vars

NextBump ==
    \/ \E e \in Monsters, value \in 0..1 : ApiSetHp(e, value)
    \/ \E e \in Ids, dx \in Deltas, dy \in Deltas : ApiBump(e, dx, dy)

\* Bumps called directly, and hp assigned directly.
SpecBump == Init /\ [][NextBump]_vars

\* action = BumpAction(entity, dx, dy): the object is constructed and kept
ConstructBump(e, dx, dy) ==
    /\ Idle
    /\ pending = NoPending
    /\ pending' = [who |-> e, dx |-> dx, dy |-> dy, x |-> ent[e].x, y |-> ent[e].y,
                   dest |-> DestKind(ent, ent[e].x + dx, ent[e].y + dy)]
    /\ UNCHANGED <<tiles, ent, visible, explored, messages, event_handler, cursor,
                   log_length, handling, left, session, rooms, attempts, twin, turns, deaths,
                   printed, last>>

\* action.perform() on the BumpAction constructed earlier
PerformBump ==
    /\ Idle
    /\ pending # NoPending
    /\ \E w \in BumpAction(World, pending.who, pending.dx, pending.dy) :
         Commit(w, Call("PerformBump", pending.who, pending.dx, pending.dy), "none")
    /\ pending' = NoPending
    /\ UNCHANGED <<handling, left>>

\* The four steps along an axis
CardinalSteps == {<<0, -1>>, <<0, 1>>, <<-1, 0>>, <<1, 0>>}

\* MovementAction(entity, dx, dy).perform() while a Bump is waiting; the
\* history keeps no detail of it
MoveMeanwhile(e, dx, dy) ==
    /\ Idle
    /\ Commit([MovementAction(World, e, dx, dy) EXCEPT !.res = "none"],
              [op |-> "meanwhile", who |-> NoEntity, arg |-> 0, key |-> "none",
               dest |-> "none", delta |-> <<0, 0>>, allowed |-> FALSE,
               goal |-> <<0, 0>>, handler |-> "none"], "none")
    /\ UNCHANGED <<handling, left, pending>>

NextPending ==
    \/ \E e \in Ids, d \in CardinalSteps : ConstructBump(e, d[1], d[2])
    \/ PerformBump
    \/ \E e \in Ids, d \in CardinalSteps : MoveMeanwhile(e, d[1], d[2])

\* A Bump is constructed, entities move and fight, then the Bump is performed.
SpecPending == Init /\ [][NextPending]_vars

\* entity.ai.perform() on a monster that has its ai, between two batches
AiPerform(e) ==
    /\ Idle
    /\ e \in Monsters
    /\ ent[e].ai # "None"
    /\ \E w \in HostileEnemyPerform(World, e) :
         Commit(w, [op |-> "AiPerform", who |-> e, arg |-> 0, key |-> "none",
                    dest |-> "none", delta |-> <<0, 0>>, allowed |-> FALSE,
                    goal |-> <<0, 0>>, handler |-> "none"], "none")
    /\ UNCHANGED <<handling, left, pending>>

\* The two rooms of the two-room dungeon
RoomA == RectangularRoom(0, 0, 2, 2)
RoomB == RectangularRoom(Width - 3, 0, 2, Height - 1)

\* tcod.los.bresenham between two cells of one row or one column
Segment(a, b) ==
    {c \in Cells : /\ Min(a[1], b[1]) <= c[1] /\ c[1] <= Max(a[1], b[1])
                   /\ Min(a[2], b[2]) <= c[2] /\ c[2] <= Max(a[2], b[2])}

\* tunnel_between that yields its first segment only
TunnelBetween_FirstSegment(start, end, draw) ==
    LET corner == IF draw THEN <<end[1], start[2]>> ELSE <<start[1], end[2]>>
    IN Segment(start, corner)

\* tunnel_between: the L-shaped tunnel it yields; `draw` is the outcome of
\* random.random() < 0.5
TunnelBetween(start, end, draw) ==
    LET corner == IF draw THEN <<end[1], start[2]>> ELSE <<start[1], end[2]>>
    IN Segment(start, corner) \cup Segment(corner, end)

\* generate_dungeon with two accepted rooms, RoomA first: both are dug out
\* and joined by a tunnel (whose corner lies in the row of RoomA's centre),
\* the player stands at the centre of RoomA, place_entities has spawned the
\* monsters (a troll first, orcs after it) on free cells inside RoomB; then
\* Engine.__init__ has computed the first field of view.
InitAi ==
    /\ tiles = [c \in Cells |->
                  IF c \in Inner(RoomA) \cup Inner(RoomB)
                            \cup TunnelBetween(Centre(RoomA), Centre(RoomB), TRUE)
                  THEN "floor" ELSE "wall"]
    /\ \E pos \in [1..NumAiMonsters -> Inner(RoomB)] :
         /\ \A m, n \in 1..NumAiMonsters : m # n => pos[m] # pos[n]
         /\ ent = [e \in 0..NumAiMonsters |->
                     IF e = player
                     THEN Spawn("Player", Centre(RoomA)[1], Centre(RoomA)[2])
                     ELSE Spawn(IF e = 1 THEN "Troll" ELSE "Orc", pos[e][1], pos[e][2])]
    /\ visible = ComputeFov(Centre(RoomA), FovRadius)
    /\ explored = visible
    /\ messages = <<>>
    /\ event_handler = "MainGameEventHandler"
    /\ cursor = 0
    /\ log_length = 0
    /\ handling = "none"
    /\ left = 0
    /\ session = "running"
    /\ pending = NoPending
    /\ rooms = <<RoomA, RoomB>>
    /\ attempts = 2
    /\ twin = NoTwin
    /\ turns = 0
    /\ deaths = [e \in 0..NumAiMonsters |-> 0]
    /\ printed = EmptyBag
    /\ last = [op |-> "init", who |-> NoEntity, arg |-> 0, key |-> "none", dest |-> "none",
               delta |-> <<0, 0>>, built |-> NoPending, ai |-> NoAi,
               allowed |-> FALSE, goal |-> <<0, 0>>,
               target |-> NoEntity, handler |-> "none", action |-> "None",
               res |-> "none", phases |-> <<>>,
               ai_calls |-> [e \in 0..NumAiMonsters |-> 0], died |-> {}]

\* The keys of the player's turns: the four arrows and a wait
TurnEvents == [type : {"KeyDown"}, sym : {"UP", "DOWN", "LEFT", "RIGHT", "PERIOD"}]

NextAi ==
    \/ BeginBatch(1)
    \/ \E ev \in TurnEvents : HandleEvent(ev)
    \/ \E e \in Monsters : AiPerform(e)

\* The player's turns, with the monsters' ai performed between the batches.
SpecAi == InitAi /\ [][NextAi]_vars

\* A monster attacks a neighbouring cell between two batches of events.
MonsterAttacks(e, dx, dy) ==
    /\ e \in Monsters
    /\ dx \in -1..1 /\ dy \in -1..1
    /\ ApiMelee(e, dx, dy)

NextPlay ==
    \/ \E n \in 1..MaxBatch : BeginBatch(n)
    \/ \E ev \in Events : HandleEvent(ev)
    \/ \E e \in Monsters, dx \in -1..1, dy \in -1..1 : MonsterAttacks(e, dx, dy)

\* The session, with the monsters attacking between the batches.
SpecPlay == Init /\ [][NextPlay]_vars

\* ------------------------------------------------------------------------
\* Dungeon generation (procgen.py)
\* ------------------------------------------------------------------------
\* RectangularRoom.intersects
Intersects(self, other) ==
    /\ self.x1 <= other.x2
    /\ self.x2 >= other.x1
    /\ self.y1 <= other.y2
    /\ self.y2 >= other.y1

\* The test of generate_dungeon that never discards a room
Rejected_Never(new_room, R) == FALSE

\* generate_dungeon: any(new_room.intersects(other_room) for other_room in rooms)
Rejected(new_room, R) == \E i \in 1..Len(R) : Intersects(new_room, R[i])

\* place_entities: the cells randint(x1 + 1, x2 - 1), randint(y1 + 1, y2 - 1)
\* can draw
Spots(room) == ((room.x1 + 1)..(room.x2 - 1)) \X ((room.y1 + 1)..(room.y2 - 1))

\* place_entities that spawns every monster it draws, on whatever cell
RECURSIVE PlaceEntities_IgnoresOccupied(_, _, _, _)
PlaceEntities_IgnoresOccupied(E, spots, orcs, i) ==
    IF i > Len(spots) THEN E
    ELSE LET id == Cardinality(DOMAIN E)
         IN PlaceEntities_IgnoresOccupied(
                [e \in DOMAIN E \cup {id} |->
                    IF e = id
                    THEN Spawn(IF orcs[i] THEN "Orc" ELSE "Troll", spots[i][1], spots[i][2])
                    ELSE E[e]],
                spots, orcs, i + 1)

\* place_entities from its i-th monster on.  Len(spots) is the number of
\* monsters drawn, spots[i] the cell drawn for the i-th one and orcs[i] the
\* outcome of random.random() < 0.8; a monster is spawned unless an entity of
\* the dungeon stands on its cell.
RECURSIVE PlaceEntities(_, _, _, _)
PlaceEntities(E, spots, orcs, i) ==
    IF i > Len(spots) THEN E
    ELSE LET x == spots[i][1]
             y == spots[i][2]
             id == Cardinality(DOMAIN E)
         IN IF \E e \in DOMAIN E : E[e].x = x /\ E[e].y = y
            THEN PlaceEntities(E, spots, orcs, i + 1)
            ELSE PlaceEntities([e \in DOMAIN E \cup {id} |->
                                   IF e = id
                                   THEN Spawn(IF orcs[i] THEN "Orc" ELSE "Troll", x, y)
                                   ELSE E[e]],
                               spots, orcs, i + 1)

\* One iteration of the loop of generate_dungeon on the tiles T, the entities
\* E and the accepted rooms R, after its draws d: the room drawn, the corner
\* of the tunnel, the monsters' cells and kinds.
Attempt(T, E, R, d) ==
    IF Rejected(d.room, R) THEN [tiles |-> T, ent |-> E, rooms |-> R]
    ELSE LET dug == [c \in Cells |-> IF c \in Inner(d.room) THEN "floor" ELSE T[c]]
             tunnel == IF Len(R) = 0 THEN {}
                       ELSE TunnelBetween(Centre(R[Len(R)]), Centre(d.room), d.corner)
             placed == IF Len(R) = 0
                       THEN [E EXCEPT ![player].x = Centre(d.room)[1],
                                      ![player].y = Centre(d.room)[2]]
                       ELSE E
         IN [tiles |-> [c \in Cells |-> IF c \in tunnel THEN "floor" ELSE dug[c]],
             ent |-> PlaceEntities(placed, d.spots, d.orcs, 1),
             rooms |-> Append(R, d.room)]

\* The iteration whose tunnel corner comes from a coin of its own, not from
\* the draws
Outcomes_OwnCoin(T, E, R, d) ==
    {Attempt(T, E, R, [d EXCEPT !.corner = coin]) : coin \in BOOLEAN}

\* The results one iteration can have once its draws are fixed.  The draws
\* are all it leaves open: the any() of place_entities does not depend on
\* the order in which the set dungeon.entities is iterated.
Outcomes(T, E, R, d) == {Attempt(T, E, R, d)}

\* The rooms an iteration can draw: width and height from randint(room_min_size,
\* room_max_size), x from randint(0, width - room_width - 1), y likewise
Candidates ==
    UNION {{RectangularRoom(x, y, size[1], size[2]) :
                x \in 0..(Width - size[1] - 1), y \in 0..(Height - size[2] - 1)} :
           size \in (RoomMinSize..RoomMaxSize) \X (RoomMinSize..RoomMaxSize)}

\* The draws of place_entities for n monsters
MonsterDraws(room, n) ==
    {[spots |-> spots, orcs |-> orcs] :
        spots \in [1..n -> Spots(room)], orcs \in [1..n -> BOOLEAN]}

\* The draws of one iteration that draws `room`: nothing more when the room
\* is discarded; else the corner of the tunnel (from the second accepted room
\* on) and the monsters.
DrawsFor(R, room) ==
    IF Rejected(room, R)
    THEN {[room |-> room, corner |-> TRUE, spots |-> <<>>, orcs |-> <<>>]}
    ELSE {[room |-> room, corner |-> corner, spots |-> m.spots, orcs |-> m.orcs] :
            corner \in IF Len(R) = 0 THEN {TRUE} ELSE BOOLEAN,
            m \in UNION {MonsterDraws(room, n) : n \in 0..MaxMonstersPerRoom}}

\* The history of a step of the generation
Generated ==
    [op |-> "generate", who |-> NoEntity, arg |-> 0, key |-> "none", dest |-> "none",
     delta |-> <<0, 0>>, built |-> NoPending, ai |-> NoAi,
     allowed |-> FALSE, goal |-> <<0, 0>>,
     target |-> NoEntity, handler |-> "none", action |-> "None",
     res |-> "none", phases |-> <<>>, ai_calls |-> [e \in DOMAIN ent' |-> 0], died |-> {}]

\* generate_dungeon up to its loop: the dungeon is a GameMap of the given
\* width and height that is all wall and whose entities are the player; no
\* room is accepted.  The player is an Actor as Actor.__init__ leaves it, at
\* (0, 0) and without a game_map attribute.  (Line 185 passes map_width and
\* map_height to GameMap.__init__ in the places of `engine` and `width`; the
\* model takes them as the map's width and height.)
InitGen ==
    /\ tiles = [c \in Cells |-> "wall"]
    /\ ent = [e \in {player} |->
                [Spawn("Player", 0, 0) EXCEPT !.game_map = "unset"]]
    /\ visible = {}
    /\ explored = {}
    /\ messages = <<>>
    /\ event_handler = "MainGameEventHandler"
    /\ cursor = 0
    /\ log_length = 0
    /\ handling = "none"
    /\ left = 0
    /\ session = "generating"
    /\ pending = NoPending
    /\ rooms = <<>>
    /\ attempts = 0
    /\ twin = [tiles |-> tiles, ent |-> ent, rooms |-> rooms]
    /\ turns = 0
    /\ deaths = [e \in {player} |-> 0]
    /\ printed = EmptyBag
    /\ last = [op |-> "init", who |-> NoEntity, arg |-> 0, key |-> "none", dest |-> "none",
               delta |-> <<0, 0>>, built |-> NoPending, ai |-> NoAi,
               allowed |-> FALSE, goal |-> <<0, 0>>,
               target |-> NoEntity, handler |-> "none", action |-> "None",
               res |-> "none", phases |-> <<>>,
               ai_calls |-> [e \in {player} |-> 0], died |-> {}]

\* One iteration of the loop of generate_dungeon, for every outcome of its
\* draws.
GenerateAttempt ==
    /\ session = "generating"
    /\ attempts < MaxRooms
    /\ \E room \in Candidates : \E d \in DrawsFor(rooms, room) :
         \E g \in Outcomes(tiles, ent, rooms, d) :
            /\ tiles' = g.tiles
            /\ ent' = g.ent
            /\ rooms' = g.rooms
    /\ attempts' = attempts + 1
    /\ deaths' = [e \in DOMAIN ent' |-> 0]
    /\ last' = Generated
    /\ UNCHANGED <<visible, explored, messages, event_handler, cursor, log_length,
                   handling, left, session, pending, twin, turns, printed>>

\* generate_dungeon has returned; the engine is constructed on the dungeon,
\* and Engine.__init__ computes the first field of view.
StartEngine ==
    /\ session = "generating"
    /\ attempts = MaxRooms
    /\ session' = "running"
    /\ visible' = ComputeFov(<<ent[player].x, ent[player].y>>, FovRadius)
    /\ explored' = explored \cup visible'
    /\ UNCHANGED <<tiles, ent, messages, event_handler, cursor, log_length,
                   handling, left, pending, rooms, attempts, twin, turns, deaths, printed,
                   last>>

NextGen ==
    \/ GenerateAttempt
    \/ StartEngine

\* The generation of a dungeon, up to the construction of the engine.
SpecGen == InitGen /\ [][NextGen]_vars

\* Two runs of generate_dungeon with the same parameters and the same seed:
\* the random source gives both runs the same draws, so the two runs make
\* their k-th iteration on the same draws d.
GenerateTwice ==
    /\ session = "generating"
    /\ attempts < MaxRooms
    /\ \E room \in Candidates : \E d \in DrawsFor(rooms, room) :
         \E g \in Outcomes(tiles, ent, rooms, d),
            h \in Outcomes(twin.tiles, twin.ent, twin.rooms, d) :
            /\ tiles' = g.tiles
            /\ ent' = g.ent
            /\ rooms' = g.rooms
            /\ twin' = h
    /\ attempts' = attempts + 1
    /\ deaths' = [e \in DOMAIN ent' |-> 0]
    /\ last' = Generated
    /\ UNCHANGED <<visible, explored, messages, event_handler, cursor, log_length,
                   handling, left, session, pending, turns, printed>>

NextTwoRuns == GenerateTwice

\* Two runs of the generation side by side.
SpecTwoRuns == InitGen /\ [][NextTwoRuns]_vars

\* The steps an action of a turn can be given: every (dx, dy) but (0, 0)
TurnSteps == (Deltas \X Deltas) \ {<<0, 0>>}

\* A turn of the living entity e in the generated dungeon: the BumpAction of
\* the player's key, or the MeleeAction or MovementAction the entity's ai
\* performs (a Bump is a Melee when an actor stands at the destination).
\* The history keeps no detail of it.
TakeTurn(e, dx, dy) ==
    /\ Idle
    /\ turns < MaxTurns
    /\ IsAlive(ent, e)
    /\ \E w \in BumpAction(World, e, dx, dy) \cup {MovementAction(World, e, dx, dy)} :
         Record([w EXCEPT !.res = "none", !.target = NoEntity, !.printed = EmptyBag,
                          !.action = NoAction],
                [op |-> "turn", who |-> NoEntity, arg |-> 0, key |-> "none",
                 dest |-> "none", delta |-> <<0, 0>>, allowed |-> FALSE,
                 goal |-> <<0, 0>>, handler |-> "none"], "none")
    /\ turns' = turns + 1
    /\ UNCHANGED <<handling, left, pending>>

NextDungeon ==
    \/ GenerateAttempt
    \/ StartEngine
    \/ \E e \in Ids, d \in TurnSteps : TakeTurn(e, d[1], d[2])

\* The generation of a dungeon followed by turns of its entities.
SpecDungeon == InitGen /\ [][NextDungeon]_vars

\* The texts and colours the direct calls of add_message pass
Texts == {"Orc is dead!", "Troll is dead!", "You died!"}
Colours == {"white", "player_die", "enemy_die"}

\* engine.message_log.add_message(text, fg, stack=stack), called directly.
\* The history keeps the text in `key`, the flag in `allowed` and the number
\* of calls made so far in `arg`.
ApiAddMessage(text, fg, stack) ==
    /\ Idle
    /\ last.arg < MaxCalls
    /\ messages' = AddMessageStack(messages, text, fg, stack)
    /\ last' = [last EXCEPT !.op = "add_message", !.key = text,
                            !.allowed = stack, !.arg = @ + 1]
    /\ UNCHANGED <<tiles, ent, visible, explored, event_handler, cursor, log_length,
                   handling, left, session, pending, rooms, attempts, twin, turns,
                   deaths, printed>>

NextLog == \E text \in Texts, fg \in Colours, stack \in BOOLEAN : ApiAddMessage(text, fg, stack)

\* Messages added to the log of a new session, one call after the other.
SpecLog == Init /\ [][NextLog]_vars

TypeOK ==
    /\ session \in {"generating", "running", "exited", "crashed"}
    /\ event_handler \in {"MainGameEventHandler", "GameOverEventHandler", "HistoryViewer"}
    /\ left \in 0..MaxBatch

\* ------------------------------------------------------------------------
\* Properties
\* ------------------------------------------------------------------------
\* The state a turn can change, without the history variables.
world == <<tiles, ent, visible, explored, messages, event_handler, cursor,
           log_length, session, deaths>>

\* C1: after a non-Escape player intent is performed, ai.perform has been
\* called exactly once on every living actor other than the player (and on
\* nobody else) before control returns for the next intent.
C1_EveryLivingEnemyActsOnce ==
    (last.op = "event" /\ last.action \in {"Bump", "Wait"}) =>
        \A e \in Ids : last.ai_calls[e] = IF e # player /\ ent[e].hp > 0 THEN 1 ELSE 0

\* C2: 0 <= hp <= max_hp for every actor, whatever was assigned to hp and
\* whoever was attacked.
C2_HpWithinBounds ==
    \A e \in Ids : 0 <= ent[e].hp /\ ent[e].hp <= ent[e].max_hp

\* C2 witness: a value above max_hp has just been assigned to an actor's hp.
C2_Witness ==
    /\ last.op = "hp"
    /\ last.arg > ent[last.who].max_hp
    /\ ent[last.who].hp = ent[last.who].max_hp

\* Number of add_message calls the log accounts for: the sum of the counts.
RECURSIVE TotalCount(_)
TotalCount(msgs) ==
    IF msgs = <<>> THEN 0 ELSE Head(msgs).count + TotalCount(Tail(msgs))

RECURSIVE TotalDeaths(_)
TotalDeaths(S) ==
    IF S = {} THEN 0
    ELSE LET e == CHOOSE x \in S : TRUE IN deaths[e] + TotalDeaths(S \ {e})

\* C3: an actor goes through Fighter.die exactly once, at the first hp
\* assignment that brings its hp to 0; a later hp-reducing assignment to the
\* dead actor leaves hp at 0, runs no second die and logs no second death
\* message; melee never makes a dead actor alive again.
C3_DiesExactlyOnce ==
    /\ [](/\ \A e \in Ids : deaths[e] <= 1 /\ (deaths[e] = 0 => ent[e].hp > 0)
          /\ TotalCount(messages) = TotalDeaths(Ids))
    /\ [][\A e \in Ids :
            /\ (ent[e].hp > 0 /\ ent'[e].hp = 0 /\ deaths[e] = 0) => deaths'[e] = 1
            /\ deaths'[e] # deaths[e] =>
                  (deaths[e] = 0 /\ ent[e].hp > 0 /\ ent'[e].hp = 0)
            /\ (deaths[e] = 1 /\ ent[e].hp = 0 /\ last'.op = "hp" /\ last'.who = e
                  /\ last'.arg <= 0) =>
                  (ent'[e] = ent[e] /\ deaths' = deaths /\ messages' = messages)
            /\ (deaths[e] = 1 /\ ent[e].hp = 0 /\ last'.op = "Melee") =>
                  ent'[e].hp = 0
         ]_vars

\* C3 witness: a negative value has just been assigned to the hp of an actor
\* that had died before.
C3_Witness ==
    /\ last.op = "hp"
    /\ last.arg < 0
    /\ last.died = {}
    /\ deaths[last.who] = 1
    /\ ent[last.who].hp = 0

\* C5: a performed Escape ends the session at once: that turn ran neither the
\* enemy turns nor update_fov, and nothing is performed afterwards.
C5_EscapeEndsSession ==
    /\ [](last.action = "Escape" =>
             (session = "exited" /\ last.phases = <<"perform">>))
    /\ [][session = "exited" => UNCHANGED vars]_vars

\* C5 witness: the main game handler has performed an Escape.
C5_Witness ==
    /\ last.op = "event"
    /\ last.handler = "MainGameEventHandler"
    /\ last.action = "Escape"
    /\ session = "exited"

C6_MoveIffAllowed ==
    last.op = "Move" =>
        /\ <<ent[last.who].x, ent[last.who].y>> = last.goal
        /\ (last.res = "moved") = last.allowed

\* C6 witness: a Move has just taken an entity to a free cell.
C6_Witness ==
    /\ last.op = "Move"
    /\ last.allowed
    /\ last.res = "moved"
    /\ last.dest \in {"empty", "corpse"}

\* C7: a Move to a destination that is out of bounds, not walkable or held by
\* a blocking entity changes nothing and raises nothing.
C7_BlockedMoveIsNoOp ==
    [][(last'.op = "Move" /\ ~last'.allowed) =>
          (UNCHANGED world /\ session' = "running" /\ printed' = EmptyBag)]_vars

\* C7 witness: a Move toward a cell outside the map has been performed and
\* the session goes on.
C7_Witness ==
    /\ last.op = "Move"
    /\ ~last.allowed
    /\ last.dest = "out_of_bounds"
    /\ session = "running"

\* C8: a Melee toward a cell that holds a living actor takes
\* power - defense from the target's hp (not below 0) when that is positive,
\* and leaves the target's hp as it is otherwise.
C8_MeleeDamage ==
    [][(last'.op = "Melee" /\ last'.dest = "actor") =>
          /\ last'.target \in Ids
          /\ LET a == last'.who
                 t == last'.target
                 damage == ent[a].power - ent[t].defense
             IN /\ ent[t].hp > 0
                /\ IF damage > 0
                   THEN ent'[t].hp = Max(0, ent[t].hp - damage) /\ last'.res = "hit"
                   ELSE ent'[t].hp = ent[t].hp /\ last'.res = "no_damage"
      ]_vars

\* C8 witness: a hit has just taken hit points from a target that survived it.
C8_Witness ==
    /\ last.op = "Melee"
    /\ last.res = "hit"
    /\ last.target \in Ids
    /\ ent[last.target].hp > 0
    /\ ent[last.target].hp < ent[last.target].max_hp

\* C9: a Melee toward a cell that holds no living actor (an empty cell, a
\* corpse, a wall, a cell outside the map) changes nothing, logs nothing and
\* prints nothing.
C9_MeleeWithoutTarget ==
    [][(last'.op = "Melee" /\ last'.dest # "actor") =>
          (UNCHANGED world /\ printed' = EmptyBag /\ last'.res = "no_target")]_vars

\* C9 witness: a Melee has been performed toward a cell that holds a corpse.
C9_Witness ==
    /\ last.op = "Melee"
    /\ last.dest = "corpse"
    /\ last.res = "no_target"

\* C10: every Melee against a living target adds exactly one combat message
\* to the message log, and one death message more for each actor it kills.
C10_OneLogEntryPerMelee ==
    [][(last'.op = "Melee" /\ last'.dest = "actor") =>
          TotalCount(messages') = TotalCount(messages) + 1 + Cardinality(last'.died)
      ]_vars

\* The step leaves the program in the state of the world w: everything an
\* operation can change, what it printed and how it ended.
Yields(w) ==
    /\ ent' = w.ent
    /\ messages' = w.messages
    /\ event_handler' = w.event_handler
    /\ visible' = w.visible
    /\ explored' = w.explored
    /\ deaths' = w.deaths
    /\ printed' = w.printed
    /\ session' = (IF w.exc = "SystemExit" THEN "exited"
                   ELSE IF w.exc # "none" THEN "crashed" ELSE session)
    /\ last'.res = w.res

\* C11: a Bump of e by (dx, dy) ends in the state a Melee of e by (dx, dy)
\* ends in when a living actor stands at the destination, and in the state a
\* Move of e by (dx, dy) ends in otherwise (a corpse, a wall, an empty cell or
\* a cell outside the map at the destination).
C11_BumpIsMeleeOrMove ==
    [][last'.op = "Bump" =>
          LET e == last'.who
              dx == last'.delta[1]
              dy == last'.delta[2]
          IN IF last'.dest = "actor"
             THEN \E w \in MeleeAction(World, e, dx, dy) : Yields(w)
             ELSE Yields(MovementAction(World, e, dx, dy))
      ]_vars

\* C11 witness: a Bump toward a corpse has moved the entity onto the
\* corpse's cell.
C11_Witness ==
    /\ last.op = "Bump"
    /\ last.dest = "corpse"
    /\ last.res = "moved"

\* C12: a Bump that was constructed earlier decides from the state in which
\* it is performed: it ends as the Melee of that state when a living actor
\* stands at the entity's position plus (dx, dy) at perform time, and as the
\* Move of that state otherwise, whatever stood there at construction.
C12_BumpDecidesAtPerformTime ==
    [][(pending # NoPending /\ pending' = NoPending) =>
          LET e == pending.who
              x == ent[e].x + pending.dx
              y == ent[e].y + pending.dy
          IN IF DestKind(ent, x, y) = "actor"
             THEN \E w \in MeleeAction(World, e, pending.dx, pending.dy) : Yields(w)
             ELSE Yields(MovementAction(World, e, pending.dx, pending.dy))
      ]_vars

\* C12 witness: a Bump constructed toward an empty cell was performed after
\* its entity had moved, and attacked the actor standing at the new
\* destination.
C12_Witness ==
    /\ last.op = "PerformBump"
    /\ last.built.dest = "empty"
    /\ last.dest = "actor"
    /\ last.res \in {"hit", "no_damage"}
    /\ <<ent[last.who].x, ent[last.who].y>> # <<last.built.x, last.built.y>>

\* C13: an actor that dies stays in the entity collection, as the same
\* entity on the same cell: its glyph, colour, name and render order change,
\* its ai becomes None and blocks_movement False (its hp is 0); nothing else
\* of it changes, no other entity changes, and the collection keeps its size.
C13_DeathInPlace ==
    [][\A e \in Ids :
          deaths'[e] > deaths[e] =>
             /\ DOMAIN ent' = DOMAIN ent
             /\ ent'[e] = [ent[e] EXCEPT !.char = "%",
                                         !.color = <<191, 0, 0>>,
                                         !.name = "remains of " \o ent[e].name,
                                         !.render_order = "CORPSE",
                                         !.ai = "None",
                                         !.path = <<>>,
                                         !.blocks_movement = FALSE,
                                         !.hp = 0]
             /\ \A o \in Ids \ {e} : ent'[o] = ent[o]
      ]_vars

\* C13 witness: a Melee has just killed its target, which lies on its cell
\* as a corpse among as many entities as before.
C13_Witness ==
    /\ last.op = "Melee"
    /\ last.died = {last.target}
    /\ ent[last.target].char = "%"
    /\ ent[last.target].render_order = "CORPSE"
    /\ ~ent[last.target].blocks_movement
    /\ DOMAIN ent = 0..NumMonsters

\* The step is a call of ai.perform() on the monster last'.who.
AiStep == handling = "none" /\ handling' = "none" /\ last'.op = "AiPerform"

\* Before the step: the monster's cell is in the visible set
AiSeen == <<ent[last'.who].x, ent[last'.who].y>> \in visible

\* Before the step: the monster's Chebyshev distance to the player
AiDistance ==
    Max(Abs(ent[player].x - ent[last'.who].x), Abs(ent[player].y - ent[last'.who].y))

\* The step takes the first cell off the path p, leaves the rest of p as the
\* monster's stored path, puts the monster on that cell when a Move there is
\* allowed and leaves it where it is otherwise; nothing else changes.
StepsAlong(p) ==
    LET e == last'.who
        allowed == MoveAllowed(e, Head(p)[1] - ent[e].x, Head(p)[2] - ent[e].y)
    IN /\ ent'[e] = [ent[e] EXCEPT !.path = Tail(p),
                                   !.x = IF allowed THEN Head(p)[1] ELSE @,
                                   !.y = IF allowed THEN Head(p)[2] ELSE @]
       /\ last'.res = "moved" <=> allowed
       /\ \A o \in Ids \ {e} : ent'[o] = ent[o]
       /\ UNCHANGED <<tiles, visible, explored, messages, event_handler, session, deaths>>

\* C14: a hostile enemy whose cell is visible and that stands next to the
\* player (Chebyshev distance <= 1) performs the Melee toward the player: the
\* step ends as that Melee ends, the enemy stays on its cell and its stored
\* path is what it was.
C14_AdjacentEnemyAttacks ==
    [][(AiStep /\ AiSeen /\ AiDistance <= 1) =>
          LET e == last'.who
          IN /\ \E w \in MeleeAction(World, e, ent[player].x - ent[e].x,
                                       ent[player].y - ent[e].y) : Yields(w)
             /\ last'.res \in {"hit", "no_damage", "no_target"}
             /\ ent[player].hp > 0 => last'.target = player
             /\ ent'[e].x = ent[e].x /\ ent'[e].y = ent[e].y
             /\ ent'[e].path = ent[e].path
      ]_vars

\* C14 witness: an enemy standing diagonally next to the player, with a
\* stored path, has attacked the player and still has that path.
C14_Witness ==
    /\ last.op = "AiPerform"
    /\ last.ai.seen
    /\ last.ai.distance = 1
    /\ last.ai.path # <<>>
    /\ last.target = player
    /\ last.res \in {"hit", "no_damage"}
    /\ ent[last.who].x # ent[player].x /\ ent[last.who].y # ent[player].y
    /\ ent[last.who].path = last.ai.path

\* C15: a hostile enemy whose cell is visible and that stands further than
\* one cell from the player replaces its stored path by a new path to the
\* player's cell, attempts the Move to the first cell of the new path and
\* takes that cell off the stored path; with an empty new path it waits.
C15_DistantEnemySeeks ==
    [][(AiStep /\ AiSeen /\ AiDistance > 1) =>
          \E p \in GetPathTo(World, last'.who, <<ent[player].x, ent[player].y>>) :
             IF p # <<>>
             THEN /\ p[Len(p)] = <<ent[player].x, ent[player].y>>
                  /\ StepsAlong(p)
             ELSE /\ ent' = [ent EXCEPT ![last'.who].path = <<>>]
                  /\ last'.res = "wait"
                  /\ UNCHANGED <<tiles, visible, explored, messages, event_handler,
                                 session, deaths>>
      ]_vars

\* C15 witness: an enemy that held a stored path has taken a step along a
\* new path which is not the rest of the old one.
C15_Witness ==
    /\ last.op = "AiPerform"
    /\ last.ai.seen
    /\ last.ai.distance > 1
    /\ last.ai.path # <<>>
    /\ last.res = "moved"
    /\ <<ent[last.who].x, ent[last.who].y>> # last.ai.from
    /\ ent[last.who].path # Tail(last.ai.path)

C17_AtMostOneCellPerTurn ==
    last.op = "AiPerform" =>
        Max(Abs(ent[last.who].x - last.ai.from[1]),
            Abs(ent[last.who].y - last.ai.from[2])) <= 1

\* C18: in the cost array of get_path_to a cell that is not walkable costs 0,
\* a walkable cell without a blocks_movement entity costs 1, and a walkable
\* cell with a blocks_movement entity costs 1 + 10.
C18_CostField ==
    \A c \in Cells :
        CostField(ent)[c] =
            IF tiles[c] # "floor" THEN 0
            ELSE IF \E e \in Ids : ent[e].blocks_movement /\ <<ent[e].x, ent[e].y>> = c
            THEN 11
            ELSE 1

\* C18 witness: an enemy has computed a path whose first cell was occupied
\* by a blocking entity, and its Move there was refused.
C18_Witness ==
    /\ last.op = "AiPerform"
    /\ last.ai.seen
    /\ last.ai.distance > 1
    /\ last.res = "entity"

\* The last step ran Engine.update_fov.
RanUpdateFov(phases) == \E i \in 1..Len(phases) : phases[i] = "update_fov"

\* C19: explored never loses a cell; a step that runs update_fov leaves
\* explored as the union of the old explored set and the new visible set,
\* and no other step changes explored.
C19_ExploredIsMonotonic ==
    [][/\ explored \subseteq explored'
       /\ IF handling # "none" /\ RanUpdateFov(last'.phases)
          THEN explored' = explored \cup visible'
          ELSE explored' = explored
      ]_vars

\* C19 witness: after a turn the explored set holds a cell that is not in
\* view any more.
C19_Witness ==
    /\ last.op = "event"
    /\ RanUpdateFov(last.phases)
    /\ \E c \in explored : c \notin visible
    /\ visible \subseteq explored

\* C20: a turn that performs a Bump or a Wait runs the player's action, then
\* the enemy turns, then update_fov, each once and in this order, so the
\* visible set after the turn is the field of view from the cell the player
\* stands on after the turn.
C20_FovOncePerTurnAtTheEnd ==
    (last.op = "event" /\ last.action \in {"Bump", "Wait"}) =>
        /\ last.phases = <<"perform", "handle_enemy_turns", "update_fov">>
        /\ visible = ComputeFov(<<ent[player].x, ent[player].y>>, FovRadius)

\* C20 witness: the player has moved in a turn, and the visible set is the
\* view from the new cell, which differs from the view at the start.
C20_Witness ==
    /\ last.op = "event"
    /\ last.action = "Bump"
    /\ last.res = "moved"
    /\ visible = ComputeFov(<<ent[player].x, ent[player].y>>, FovRadius)
    /\ visible # ComputeFov(Centre(RoomA), FovRadius)
\* ------------------------------------------------------------------------
\* C21: after any number of iterations of generate_dungeon, no two accepted
\* rooms intersect under RectangularRoom.intersects.
\* ------------------------------------------------------------------------
C21_AcceptedRoomsDisjoint ==
    \A i, j \in 1..Len(rooms) : i # j => ~Intersects(rooms[i], rooms[j])

\* The loop has run to its end; it accepted two rooms and discarded one.
C21_Witness ==
    /\ attempts = MaxRooms
    /\ Len(rooms) = 2
    /\ session = "generating"

RECURSIVE Flood(_)
Flood(S) ==
    LET more == {c \in Cells : /\ tiles[c] = "floor"
                               /\ \E s \in S : Abs(c[1] - s[1]) + Abs(c[2] - s[2]) = 1}
    IN IF more \subseteq S THEN S ELSE Flood(S \cup more)

\* ------------------------------------------------------------------------
\* C23: once generate_dungeon has accepted a room, the player stands at the
\* centre of the first accepted room; the centre of every accepted room is
\* joined to the player's cell by steps along an axis over walkable tiles;
\* and the centre of every later room is joined to the centre of the room
\* accepted before it by a two-segment tunnel of floor tiles that bends at
\* (end.x, start.y) or at (start.x, end.y).
\* ------------------------------------------------------------------------
C23_RoomsAreConnected ==
    Len(rooms) >= 1 =>
        LET at == <<ent[player].x, ent[player].y>>
        IN /\ at = Centre(rooms[1])
           /\ tiles[at] = "floor"
           /\ \A i \in 1..Len(rooms) : Centre(rooms[i]) \in Flood({at})
           /\ \A i \in 2..Len(rooms) :
                 LET start == Centre(rooms[i - 1])
                     end == Centre(rooms[i])
                 IN \E corner \in {<<end[1], start[2]>>, <<start[1], end[2]>>} :
                       \A c \in Segment(start, corner) \cup Segment(corner, end) :
                           tiles[c] = "floor"

\* Two rooms are accepted whose centres differ in both coordinates, so the
\* tunnel between them has a bend.
C23_Witness ==
    /\ Len(rooms) = 2
    /\ Centre(rooms[1])[1] # Centre(rooms[2])[1]
    /\ Centre(rooms[1])[2] # Centre(rooms[2])[2]
    /\ session = "running"

\* ------------------------------------------------------------------------
\* C24: an iteration of generate_dungeon spawns monsters only for a room it
\* accepts, at most max_monsters_per_room of them, each on a floor tile
\* inside that room on which no other entity stands; it leaves the monsters
\* spawned before as they were; and after it no two entities share a cell.
\* ------------------------------------------------------------------------
C24_MonstersPlacedOnFreeInnerCells ==
    [][attempts' = attempts + 1 =>
         LET new == (DOMAIN ent') \ (DOMAIN ent)
         IN /\ Cardinality(new) <= MaxMonstersPerRoom
            /\ new # {} => Len(rooms') = Len(rooms) + 1
            /\ \A m \in new :
                  /\ <<ent'[m].x, ent'[m].y>> \in Inner(rooms'[Len(rooms')])
                  /\ tiles'[<<ent'[m].x, ent'[m].y>>] = "floor"
                  /\ ent'[m].name \in Kinds
            /\ \A e \in (DOMAIN ent) \ {player} : ent'[e] = ent[e]
            /\ \A e, f \in DOMAIN ent' :
                  e # f => <<ent'[e].x, ent'[e].y>> # <<ent'[f].x, ent'[f].y>>]_vars

\* The generation is over: one monster shares the first room with the
\* player, and the second room holds max_monsters_per_room monsters.
C24_Witness ==
    /\ attempts = MaxRooms
    /\ Len(rooms) = 2
    /\ Cardinality({m \in Monsters : <<ent[m].x, ent[m].y>> \in Inner(rooms[1])}) = 1
    /\ Cardinality({m \in Monsters : <<ent[m].x, ent[m].y>> \in Inner(rooms[2])})
           = MaxMonstersPerRoom

\* ------------------------------------------------------------------------
\* C25: once generate_dungeon has run its loop, every entity in the entity
\* collection of the dungeon, the player included, has a game_map reference,
\* and the reference names the dungeon.
\* ------------------------------------------------------------------------
C25_MembersNameTheirMap ==
    attempts = MaxRooms => \A e \in Ids : ent[e].game_map = "dungeon"

\* ------------------------------------------------------------------------
\* C26: in a generated dungeon, during the generation and after any turns,
\* at most one blocks_movement entity stands on any cell, so that the loop
\* of get_blocking_entity_at_location has at most one entity to return.
\* ------------------------------------------------------------------------
C26_OneBlockingEntityPerCell ==
    \A c \in Cells : Cardinality(BlockingEntitiesAt(ent, c[1], c[2])) <= 1

\* After some turns a living monster stands on the cell of a corpse, and
\* another entity still blocks a cell next to it.
C26_Witness ==
    /\ turns > 0
    /\ \E m, k \in Monsters :
         /\ m # k
         /\ ent[m].x = ent[k].x /\ ent[m].y = ent[k].y
         /\ ent[m].blocks_movement /\ ~ent[k].blocks_movement
         /\ \E o \in Ids \ {m, k} :
               /\ ent[o].blocks_movement
               /\ Max(Abs(ent[o].x - ent[m].x), Abs(ent[o].y - ent[m].y)) = 1

\* ------------------------------------------------------------------------
\* C27: between the operations of a session, every actor is either alive or
\* a corpse.  Its hp is 0 exactly when it is a corpse (no ai, blocks_movement
\* false, render order CORPSE), and positive exactly when GameMap.actors and
\* get_actor_at_location on its cell return it; no actor has hp 0 and still
\* blocks movement or holds an ai.
\* ------------------------------------------------------------------------
C27_AliveOrCorpse ==
    \A e \in Ids :
        LET corpse == /\ ent[e].ai = "None"
                      /\ ~ent[e].blocks_movement
                      /\ ent[e].render_order = "CORPSE"
        IN /\ ent[e].hp >= 0
           /\ ent[e].hp = 0 <=> corpse
           /\ ent[e].hp > 0 <=> e \in Actors(ent)
           /\ ent[e].hp > 0 <=> e \in ActorsAt(ent, ent[e].x, ent[e].y)
           /\ ent[e].hp = 0 => ~ent[e].blocks_movement /\ ent[e].ai = "None"

\* A monster has killed the player (die ran once on it) and is still alive.
C27_Witness ==
    /\ handling = "none"
    /\ ent[player].hp = 0 /\ deaths[player] = 1
    /\ \E m \in Monsters : ent[m].hp > 0

\* ------------------------------------------------------------------------
\* C28: a key event for which the running handler returns no action (a key
\* it does not bind, 'v' in the main game, every key in the history viewer)
\* does not advance the turn: nothing is performed, handle_enemy_turns and
\* update_fov do not run, and the tiles, the entities, the visible and
\* explored cells, the message log and the session are unchanged.
\* ------------------------------------------------------------------------
C28_NoIntentNoTurn ==
    [][(/\ handling # "none"
        /\ left' < left
        /\ last'.key # "none"
        /\ last'.action = "None")
       => /\ UNCHANGED <<tiles, ent, visible, explored, messages, session, deaths>>
          /\ last'.phases = <<>>
          /\ printed' = EmptyBag
          /\ \A e \in Ids : last'.ai_calls[e] = 0]_vars

\* After the player has moved, 'v' was pressed in the main game and opened
\* the history viewer.
C28_Witness ==
    /\ last.op = "event"
    /\ last.key = "v"
    /\ last.handler = "MainGameEventHandler"
    /\ last.action = "None"
    /\ event_handler = "HistoryViewer"
    /\ <<ent[player].x, ent[player].y>> # Centre(StartRoom)

\* The fields Fighter.die changes on the entity that dies (`path` goes with
\* its ai component)
CorpseFields == {"char", "color", "blocks_movement", "ai", "path", "name", "render_order"}

\* ------------------------------------------------------------------------
\* C29: each action touches only its own target.  A Wait changes nothing.
\* A Move changes at most the x and y of the entity that moves.  A Melee
\* changes at most its target: the target's hp and, when the target dies of
\* it, the target's corpse fields, the message log and, for the player, the
\* event handler.  None of them changes the tiles, the visible or explored
\* cells, or the cell of an entity other than the one that acts.
\* ------------------------------------------------------------------------
C29_ActionsTouchOnlyTheirTarget ==
    [][/\ UNCHANGED <<tiles, visible, explored, session>>
       /\ \A o \in Ids \ {last'.who} : ent'[o].x = ent[o].x /\ ent'[o].y = ent[o].y
       /\ last'.op = "Wait" => UNCHANGED world
       /\ last'.op = "Move" =>
             /\ UNCHANGED <<messages, event_handler, deaths>>
             /\ \A o \in Ids \ {last'.who} : ent'[o] = ent[o]
             /\ \A f \in (DOMAIN ent[last'.who]) \ {"x", "y"} :
                   ent'[last'.who][f] = ent[last'.who][f]
       /\ last'.op = "Melee" =>
             LET t == last'.target
                 dies == t \in Ids /\ ent[t].ai # "None" /\ ent'[t].hp = 0
             IN /\ \A o \in Ids \ {t} : ent'[o] = ent[o]
                /\ t \in Ids =>
                      \A f \in (DOMAIN ent[t]) \ ({"hp"} \cup IF dies THEN CorpseFields ELSE {}) :
                          ent'[t][f] = ent[t][f]
                /\ ~dies => UNCHANGED <<messages, event_handler, deaths>>
                /\ dies => /\ TotalCount(messages') = TotalCount(messages) + 1
                            /\ deaths' = [deaths EXCEPT ![t] = @ + 1]
                /\ event_handler' # event_handler =>
                      dies /\ t = player /\ event_handler' = "GameOverEventHandler"
      ]_vars

\* A Melee has just killed the player: the game-over handler is installed.
C29_Witness ==
    /\ last.op = "Melee"
    /\ last.target = player
    /\ last.who # player
    /\ ent[player].hp = 0
    /\ event_handler = "GameOverEventHandler"
    /\ ent[last.who].hp > 0

\* The cells of the outer border of the map
Border == {c \in Cells : c[1] \in {0, Width - 1} \/ c[2] \in {0, Height - 1}}

C31_AddMessageCountsEveryCall ==
    [][LET n == Len(messages)
           text == last'.key
           stack == last'.allowed
       IN /\ IF stack /\ n > 0 /\ text = messages[n].plain_text
             THEN messages' = [messages EXCEPT ![n].count = @ + 1]
             ELSE /\ Len(messages') = n + 1
                  /\ SubSeq(messages', 1, n) = messages
                  /\ messages'[n + 1].plain_text = text
                  /\ messages'[n + 1].fg \in Colours
                  /\ messages'[n + 1].count = 1
          /\ TotalCount(messages') = last'.arg
          /\ \A i \in 1..Len(messages') : messages'[i].count >= 1
          /\ (stack /\ n > 0 /\ Len(messages') = n + 1) =>
                 messages'[n + 1].plain_text # messages'[n].plain_text]_vars

\* MaxCalls calls were made: one stacked on the first message, and one with
\* stack disabled appended a message whose text equals that of the message
\* before it.
C31_Witness ==
    /\ last.op = "add_message"
    /\ last.arg = MaxCalls
    /\ Len(messages) = 3
    /\ messages[1].count = 2
    /\ messages[2].plain_text = messages[1].plain_text
    /\ messages[3].plain_text # messages[2].plain_text

\* ------------------------------------------------------------------------
\* The history viewer over logs of every length up to MaxCalls
\* ------------------------------------------------------------------------
\* engine.message_log.add_message(text), called between two batches of
\* events while the main game handler is current.
ApiLog(text) ==
    /\ Idle
    /\ event_handler = "MainGameEventHandler"
    /\ TotalCount(messages) < MaxCalls
    /\ messages' = AddMessage(messages, text, "white")
    /\ UNCHANGED <<tiles, ent, visible, explored, event_handler, cursor, log_length,
                   handling, left, session, pending, rooms, attempts, twin, turns,
                   deaths, printed, last>>

\* The keys the history viewer tells apart, and the key that opens it
ViewerEvents == [type : {"KeyDown"}, sym : CursorKeySyms \cup {"v", "HOME", "END", "x"}]

NextViewer ==
    \/ \E text \in {"Orc is dead!", "You died!"} : ApiLog(text)
    \/ \E n \in 1..MaxBatch : BeginBatch(n)
    \/ \E ev \in ViewerEvents : HandleEvent(ev)

\* Messages are logged, the viewer is opened, scrolled and left.
SpecViewer == Init /\ [][NextViewer]_vars

\* A HistoryViewer is the current handler or runs the current batch
ViewerLive == "HistoryViewer" \in {event_handler, handling}

\* ------------------------------------------------------------------------
\* C32 as stated: whenever a HistoryViewer exists, 0 <= cursor <=
\* log_length - 1, for every log length including the empty log.
\* ------------------------------------------------------------------------
C32_CursorInRange ==
    ViewerLive => 0 <= cursor /\ cursor <= log_length - 1

\* ------------------------------------------------------------------------
\* C32 as amended: over a log that is not empty, the cursor of a
\* HistoryViewer satisfies 0 <= cursor <= log_length - 1 after construction
\* and after every key press; over an empty log it is -1 after construction
\* and -1 or 0 after every key press. When the viewer handles a scroll key
\* over a log that is not empty, moving up at the first message puts the
\* cursor on the last, moving down at the last puts it on the first, and
\* every other scroll step moves the cursor by the key's amount, clamped to
\* the range.
\* ------------------------------------------------------------------------
C32_CursorInRangeOfNonEmptyLog ==
    [][/\ ViewerLive' =>
            IF log_length' = 0 THEN cursor' \in {-1, 0}
            ELSE 0 <= cursor' /\ cursor' <= log_length' - 1
       /\ (handling = "MainGameEventHandler" /\ left' < left /\ last'.key = "v") =>
            /\ event_handler' = "HistoryViewer"
            /\ log_length' = Len(messages)
            /\ cursor' = log_length' - 1
       /\ (handling = "HistoryViewer" /\ left' < left /\ ViewerLive'
             /\ last'.key \in CursorKeySyms /\ log_length > 0) =>
            /\ log_length' = log_length
            /\ cursor' =
                 IF CURSOR_Y_KEYS(last'.key) < 0 /\ cursor = 0 THEN log_length - 1
                 ELSE IF CURSOR_Y_KEYS(last'.key) > 0 /\ cursor = log_length - 1 THEN 0
                 ELSE Max(0, Min(cursor + CURSOR_Y_KEYS(last'.key), log_length - 1))]_vars

\* The viewer over a log of three messages or more has just handled UP with
\* the cursor on the first message, which put the cursor on the last.
C32_Witness ==
    /\ ViewerLive
    /\ last.handler = "HistoryViewer"
    /\ last.key = "UP"
    /\ log_length >= 3
    /\ cursor = log_length - 1
====
